---- MODULE Spec2Model ----
(***************************************************************************)
(* Model of src/src/app.py: an API Gateway proxy handler (lambda_handler)  *)
(* that routes a request to create_image, list_images, get_image or        *)
(* delete_image, over a DynamoDB table and an S3 bucket.                   *)
(*                                                                         *)
(* Python strings that the code searches, splits, decodes, parses or       *)
(* concatenates are sequences of one-character strings.  Python values     *)
(* whose type the code depends on are records tagged with their type.      *)
(***************************************************************************)
EXTENDS Integers, Sequences, FiniteSets, TLC

(* ------------------------------------------------------------ bounds --- *)

\* uuid4 identifiers the model lets create_image draw.
MaxImages == 2

\* Largest value of the server clock int(time.time()); the clock starts at 1.
MaxTime == 2

(* ----------------------------------------------------- python values --- *)

None == [ty |-> "None"]

Str(s) == [ty |-> "str", v |-> s]

PyInt(n) == [ty |-> "int", v |-> n]

\* decimal.Decimal: what the boto3 resource layer returns for every number
\* attribute it reads back from the table.
Decimal(n) == [ty |-> "Decimal", v |-> n]

List(l) == [ty |-> "list", v |-> l]

\* A dict is a function from its keys to python values.
Dict(f) == [ty |-> "dict", v |-> f]

EmptyMap == [k \in {} |-> None]

\* bool(x) as `if x`, `not x` and `x or y` evaluate it.
Truthy(x) ==
    CASE x.ty = "None" -> FALSE
      [] x.ty = "str" -> Len(x.v) > 0
      [] x.ty = "list" -> Len(x.v) > 0
      [] x.ty = "dict" -> DOMAIN x.v # {}
      [] x.ty = "int" -> x.v # 0
      [] x.ty = "Decimal" -> x.v # 0
      [] OTHER -> TRUE

\* x or y
Or(x, y) == IF Truthy(x) THEN x ELSE y

\* d.get(k, dflt) on a dict d.
DictGet(d, k, dflt) == IF k \in DOMAIN d.v THEN d.v[k] ELSE dflt

\* d[k] = x on a dict d.
DictSet(d, k, x) ==
    Dict([j \in DOMAIN d.v \cup {k} |-> IF j = k THEN x ELSE d.v[j]])

(* ----------------------------------------------------------- strings --- *)

Digits == <<"0", "1", "2", "3", "4", "5", "6", "7", "8", "9">>

\* s[from..] starts with sub.
StartsAt(s, sub, from) ==
    /\ from + Len(sub) - 1 <= Len(s)
    /\ \A k \in 1..Len(sub) : s[from + k - 1] = sub[k]

\* str.endswith
EndsWith(s, suf) ==
    /\ Len(suf) <= Len(s)
    /\ StartsAt(s, suf, Len(s) - Len(suf) + 1)

\* `sub in s` for strings
Contains(s, sub) == \E i \in 1..(Len(s) + 1) : StartsAt(s, sub, i)

\* str.find: the first index at which sub occurs in s, 0 when there is none.
Find(s, sub) ==
    IF Contains(s, sub)
    THEN CHOOSE i \in 1..(Len(s) + 1) :
            /\ StartsAt(s, sub, i)
            /\ \A j \in 1..(i - 1) : ~StartsAt(s, sub, j)
    ELSE 0

\* s.split(sep)[-1]: split cuts at the occurrences of sep found left to
\* right, each search resuming after the previous occurrence.
RECURSIVE SplitLast(_, _)
SplitLast(s, sep) ==
    IF Find(s, sep) = 0
    THEN s
    ELSE SplitLast(SubSeq(s, Find(s, sep) + Len(sep), Len(s)), sep)

HexDigits ==
    <<"0", "1", "2", "3", "4", "5", "6", "7", "8", "9",
      "a", "b", "c", "d", "e", "f">>

UpperHex == <<"A", "B", "C", "D", "E", "F">>

IsHex(c) ==
    \/ \E i \in 1..16 : HexDigits[i] = c
    \/ \E i \in 1..6 : UpperHex[i] = c

HexVal(c) ==
    IF \E i \in 1..16 : HexDigits[i] = c
    THEN (CHOOSE i \in 1..16 : HexDigits[i] = c) - 1
    ELSE (CHOOSE i \in 1..6 : UpperHex[i] = c) + 9

\* The printable ASCII characters, code 32 first (the double quote, the
\* backslash and the backtick by name).
Ascii ==
    <<" ", "!", "DQUOTE", "#", "$", "%", "&", "'", "(", ")", "*", "+", ",", "-",
      ".", "/", "0", "1", "2", "3", "4", "5", "6", "7", "8", "9", ":", ";",
      "<", "=", ">", "?", "@", "A", "B", "C", "D", "E", "F", "G", "H", "I",
      "J", "K", "L", "M", "N", "O", "P", "Q", "R", "S", "T", "U", "V", "W",
      "X", "Y", "Z", "[", "BACKSLASH", "]", "^", "_", "BACKTICK", "a", "b", "c", "d", "e",
      "f", "g", "h", "i", "j", "k", "l", "m", "n", "o", "p", "q", "r", "s",
      "t", "u", "v", "w", "x", "y", "z", "{", "|", "}", "~">>

\* The character a decoded byte stands for.  Bytes outside printable ASCII
\* (control characters, UTF-8 sequences) are outside the modelled alphabet.
CharOf(code) == IF code \in 32..126 THEN Ascii[code - 31] ELSE "?"

\* urllib.parse.unquote: every %XX with two hex digits is decoded, any
\* other % is kept as it is.
RECURSIVE Unquote(_)
Unquote(s) ==
    IF s = <<>> THEN <<>>
    ELSE IF /\ s[1] = "%"
            /\ Len(s) >= 3
            /\ IsHex(s[2])
            /\ IsHex(s[3])
         THEN <<CharOf(16 * HexVal(s[2]) + HexVal(s[3]))>>
                  \o Unquote(SubSeq(s, 4, Len(s)))
         ELSE <<s[1]>> \o Unquote(Tail(s))

\* urllib.parse.unquote_plus: a plus sign becomes a space, then unquote.
unquote_plus(s) ==
    Unquote([i \in 1..Len(s) |-> IF s[i] = "+" THEN " " ELSE s[i]])

DigitValue ==
    [c \in {Digits[i] : i \in 1..10} |-> (CHOOSE i \in 1..10 : Digits[i] = c) - 1]

IsDigit(c) == c \in DOMAIN DigitValue

DigitVal(c) == DigitValue[c]

RECURSIVE DigitsVal(_)
DigitsVal(s) ==
    IF s = <<>> THEN 0
    ELSE 10 * DigitsVal(SubSeq(s, 1, Len(s) - 1)) + DigitVal(s[Len(s)])

AllDigits(s) == Len(s) > 0 /\ \A i \in 1..Len(s) : IsDigit(s[i])

\* int(s) on a string: an optional sign and decimal digits; anything else
\* raises ValueError.
IntParses(s) ==
    \/ AllDigits(s)
    \/ Len(s) > 1 /\ s[1] \in {"+", "-"} /\ AllDigits(Tail(s))

IntOf(s) ==
    IF s[1] = "-" THEN 0 - DigitsVal(Tail(s))
    ELSE IF s[1] = "+" THEN DigitsVal(Tail(s))
    ELSE DigitsVal(s)

(* ------------------------------------------------------ collaborators --- *)

\* os.environ["IMAGE_BUCKET"]
IMAGE_BUCKET == "IMAGE_BUCKET"

\* str(uuid.uuid4()): the n-th identifier drawn.  A uuid holds hex digits
\* and dashes only, and no two draws collide.
Uuid(n) == <<"i", Digits[n + 1]>>

AllIds == {Uuid(n) : n \in 1..MaxImages}

\* A JSON text, modelled by the document it encodes: what a client's
\* json.dumps produced and what json.loads gives back.
JsonText(doc) == [ty |-> "str", v |-> <<"json">>, doc |-> doc]

\* A string json.loads rejects with JSONDecodeError.
BadJsonText == Str(<<"{", "b", "a", "d">>)

IsJsonText(s) == "doc" \in DOMAIN s

\* A message string; its characters are never inspected.
Msg(s) == Str(<<s>>)

\* What json.dumps can encode: None, str, int, list and dict of those.  A
\* decimal.Decimal raises TypeError.
RECURSIVE Serializable(_)
Serializable(x) ==
    CASE x.ty = "list" -> \A k \in 1..Len(x.v) : Serializable(x.v[k])
      [] x.ty = "dict" -> \A k \in DOMAIN x.v : Serializable(x.v[k])
      [] x.ty = "Decimal" -> FALSE
      [] OTHER -> TRUE

NoResp == [kind |-> "none", statusCode |-> 0, body |-> None, exc |-> ""]

\* An exception leaving lambda_handler.
Raise(exc) == [kind |-> "raise", statusCode |-> 0, body |-> None, exc |-> exc]

\* response(status_code, body): the body goes through json.dumps.
response(status_code, body) ==
    IF Serializable(body)
    THEN [kind |-> "return", statusCode |-> status_code,
          body |-> JsonText(body), exc |-> ""]
    ELSE Raise("TypeError")

\* One call on a collaborator: the service, the operation, the key (or the
\* index key value) it names and whether it succeeded.
Call(svc, name, key, ok) == [svc |-> svc, op |-> name, key |-> key, ok |-> ok]

\* s3.generate_presigned_url: the URL signs the method, the bucket, the key,
\* the content type (PUT only) and the expiry.
PresignedUrl(method, key, content_type, expires) ==
    [ty |-> "str",
     url |-> [method |-> method, bucket |-> IMAGE_BUCKET, key |-> key,
              content_type |-> content_type, expires |-> expires]]

\* table.put_item(Item=item)
put_item(t, item) ==
    [k \in DOMAIN t \cup {item.v["image_id"].v} |->
        IF k = item.v["image_id"].v THEN item ELSE t[k]]

\* What the boto3 resource hands back for a stored item: every number
\* attribute as a decimal.Decimal.
FromDb(item) ==
    Dict([k \in DOMAIN item.v |->
            IF item.v[k].ty = "int" THEN Decimal(item.v[k].v) ELSE item.v[k]])

\* table.get_item(Key={"image_id": id}).get("Item")
get_item(t, id) == IF id \in DOMAIN t THEN FromDb(t[id]) ELSE None

\* table.delete_item(Key={"image_id": id}): no error when id is absent.
delete_item(t, id) == [k \in DOMAIN t \ {id} |-> t[k]]

\* s3.delete_object(Bucket, Key): no error when the key is absent.
delete_object(b, key) == b \ {key}

VARIABLES
    table,    \* the DynamoDB table: image_id -> item as written
    bucket,   \* the keys of the objects in the S3 bucket
    uuids,    \* how many uuid4 values were drawn
    now,      \* int(time.time()) at the latest reading of the clock
    issued,   \* the {image_id, s3_key} of every 201 response
    removed,  \* the image_ids of every 200 response of delete_image
    event,    \* the latest request
    op,       \* the operation function lambda_handler dispatched it to
    arg,      \* the image_id it passed to get_image or delete_image
    resp,     \* what lambda_handler returned or raised
    calls,    \* the collaborator calls of that invocation, in order
    items,    \* list_images' local `items` when it built its response
    pc,       \* concurrent delete_image invocations: each one's position
    dl        \* ... and its locals (image_id, item, response)

vars ==
    <<table, bucket, uuids, now, issued, removed, event, op, arg, resp,
      calls, items, pc, dl>>

store == <<table, bucket, uuids, now, issued, removed>>

conc == <<pc, dl>>

(* ------------------------------------------------------------ events --- *)

Event(method, path, pp, qs, body) ==
    [httpMethod |-> method, path |-> path, pathParameters |-> pp,
     queryStringParameters |-> qs, body |-> body]

NoEvent == Event("", <<>>, None, None, None)

S_images == <<"/", "i", "m", "a", "g", "e", "s">>

S_images_slash == S_images \o <<"/">>

uA == <<"u", "A">>

uB == <<"u", "B">>

fA == <<"a", ".", "j">>

sun == <<"s", "u", "n">>

sea == <<"s", "e", "a">>

sunny == <<"s", "u", "n", "n", "y">>

\* The locals of a delete_image invocation that has not started.
IdleLocals == [image_id |-> <<>>, item |-> None, resp |-> NoResp]

Init ==
    /\ table = EmptyMap
    /\ bucket = {}
    /\ uuids = 0
    /\ now = 1
    /\ issued = {}
    /\ removed = {}
    /\ event = NoEvent
    /\ op = "none"
    /\ arg = <<>>
    /\ resp = NoResp
    /\ calls = <<>>
    /\ items = <<>>
    /\ pc = [p \in {1, 2} |-> "idle"]
    /\ dl = [p \in {1, 2} |-> IdleLocals]

\* What an invocation leaves behind for the observer.
Done(e, o, a, r, c, it) ==
    /\ event' = e
    /\ op' = o
    /\ arg' = a
    /\ resp' = r
    /\ calls' = c
    /\ items' = it

(* ----------------------------------------------------------- routing --- *)

\* The last piece of the path as it stands, escapes and all: ImageIdOf
\* without the unquote_plus.
ImageIdRaw(path) == SplitLast(path, S_images_slash)

\* path.split("/images/")[-1], then unquote_plus.
ImageIdOf(path) == unquote_plus(SplitLast(path, S_images_slash))

\* The dispatch of lambda_handler: the first rule that matches.
Route(e) ==
    LET path_params == Or(e.pathParameters, Dict(EmptyMap))
    IN  IF e.httpMethod = "POST" /\ EndsWith(e.path, S_images)
        THEN "create_image"
        ELSE IF /\ e.httpMethod = "GET"
                /\ EndsWith(e.path, S_images)
                /\ ~Truthy(DictGet(path_params, "image_id", None))
        THEN "list_images"
        ELSE IF e.httpMethod = "GET" /\ Contains(e.path, S_images_slash)
        THEN "get_image"
        ELSE IF e.httpMethod = "DELETE" /\ Contains(e.path, S_images_slash)
        THEN "delete_image"
        ELSE "none"

\* No rule matched.
NotFound(e) ==
    /\ Done(e, "none", <<>>, response(404, Dict([k \in {"message"} |-> Msg("Not Found")])),
            <<>>, <<>>)
    /\ UNCHANGED <<store, conc>>

(* ------------------------------------------------------------ create --- *)

\* f"{user_id}/{image_id}/{filename}"
S3Key(user_id, image_id, filename) ==
    user_id.v \o <<"/">> \o image_id \o <<"/">> \o filename.v

\* The item create_image writes.
NewItem(payload, image_id, t) ==
    LET user_id == DictGet(payload, "user_id", None)
        filename == DictGet(payload, "filename", None)
    IN  Dict([k \in {"image_id", "user_id", "s3_key", "filename",
                     "content_type", "tags", "description", "created_at"} |->
            CASE k = "image_id" -> Str(image_id)
              [] k = "user_id" -> user_id
              [] k = "s3_key" -> Str(S3Key(user_id, image_id, filename))
              [] k = "filename" -> filename
              [] k = "content_type" ->
                    DictGet(payload, "content_type",
                            Msg("application/octet-stream"))
              [] k = "tags" -> DictGet(payload, "tags", List(<<>>))
              [] k = "description" -> DictGet(payload, "description", Str(<<>>))
              [] k = "created_at" -> PyInt(t)])

\* create_image(event).  D: the outcomes (TRUE: success) a table call may
\* have; a call on the object store may always fail.
create_image(e, D) ==
    LET body == Or(e.body, JsonText(Dict(EmptyMap)))
        payload == body.doc
        image_id == Uuid(uuids + 1)
    IN  \/ /\ ~IsJsonText(body)
           /\ Done(e, "create_image", <<>>,
                   response(400, Dict([k \in {"message"} |-> Msg("Invalid JSON")])),
                   <<>>, <<>>)
           /\ UNCHANGED <<store, conc>>
        \/ /\ IsJsonText(body)
           /\ payload.ty # "dict"
           /\ Done(e, "create_image", <<>>, Raise("AttributeError"), <<>>, <<>>)
           /\ UNCHANGED <<store, conc>>
        \/ /\ IsJsonText(body)
           /\ payload.ty = "dict"
           /\ \/ ~Truthy(DictGet(payload, "user_id", None))
              \/ ~Truthy(DictGet(payload, "filename", None))
           /\ Done(e, "create_image", <<>>,
                   response(400, Dict([k \in {"message"} |->
                                          Msg("user_id and filename are required")])),
                   <<>>, <<>>)
           /\ UNCHANGED <<store, conc>>
        \/ /\ IsJsonText(body)
           /\ payload.ty = "dict"
           /\ Truthy(DictGet(payload, "user_id", None))
           /\ Truthy(DictGet(payload, "filename", None))
           /\ uuids < MaxImages
           /\ uuids' = uuids + 1
           /\ \E t \in now..MaxTime, put_ok \in D :
                LET item == NewItem(payload, image_id, t)
                    key == item.v["s3_key"].v
                    put == Call("table", "put_item", image_id, put_ok)
                    put_url == PresignedUrl("put_object", key,
                                            item.v["content_type"], 900)
                IN  /\ now' = t
                    /\ IF ~put_ok
                       THEN /\ Done(e, "create_image", <<>>, Raise("ClientError"),
                                    <<put>>, <<>>)
                            /\ UNCHANGED <<table, issued>>
                       ELSE /\ table' = put_item(table, item)
                            /\ \E sign_ok \in BOOLEAN :
                                 LET sign == Call("s3", "generate_presigned_url",
                                                  key, sign_ok)
                                 IN  IF ~sign_ok
                                     THEN /\ Done(e, "create_image", <<>>,
                                                  Raise("ClientError"),
                                                  <<put, sign>>, <<>>)
                                          /\ UNCHANGED issued
                                     ELSE /\ Done(e, "create_image", <<>>,
                                                  response(201,
                                                      Dict([k \in {"image_id", "upload_url", "s3_key"} |->
                                                          CASE k = "image_id" -> Str(image_id)
                                                            [] k = "upload_url" -> put_url
                                                            [] k = "s3_key" -> Str(key)])),
                                                  <<put, sign>>, <<>>)
                                          /\ issued' = issued \cup
                                                {[image_id |-> image_id, s3_key |-> key]}
           /\ UNCHANGED <<bucket, removed, conc>>

(* -------------------------------------------------------------- list --- *)

Min(a, b) == IF a < b THEN a ELSE b

\* The identifiers of ids in the order the table returns them (the order
\* is the table's own; the model takes the order of creation).
IdSeq(ids) == SelectSeq([n \in 1..uuids |-> Uuid(n)], LAMBDA id : id \in ids)

\* x in c, for c a list (an element equals x) or a str (x is a substring).
PyIn(x, c) ==
    IF c.ty = "list"
    THEN \E k \in 1..Len(c.v) : c.v[k] = x
    ELSE Contains(c.v, x.v)

\* in_range(i) of list_images; fts and tts are None or an int.
in_range(i, fts, tts) ==
    LET ca == DictGet(i, "created_at", PyInt(0)).v
    IN  IF Truthy(fts) /\ ca < fts.v THEN FALSE
        ELSE IF Truthy(tts) /\ ca > tts.v THEN FALSE
        ELSE TRUE

\* The loop that adds download_url to an item.
WithDownloadUrl(i, bad) ==
    DictSet(i, "download_url",
            IF i.v["image_id"].v \in bad
            THEN None
            ELSE PresignedUrl("get_object", i.v["s3_key"].v, None, 300))

\* list_images(event)
list_images(e, D) ==
    LET qs == Or(e.queryStringParameters, Dict(EmptyMap))
        user_id == DictGet(qs, "user_id", None)
        tag == DictGet(qs, "tag", None)
        from_ts == DictGet(qs, "from_ts", None)
        to_ts == DictGet(qs, "to_ts", None)
        limit_s == DictGet(qs, "limit", Str(<<"5", "0">>))
        limit == IntOf(limit_s.v)
        \* what the query (through UserIndex) or the scan can return
        cand == IF Truthy(user_id)
                THEN {id \in DOMAIN table : table[id].v["user_id"] = user_id}
                ELSE DOMAIN table
        FetchCall(ok) ==
            IF Truthy(user_id)
            THEN Call("table", "query", user_id.v, ok)
            ELSE Call("table", "scan", <<>>, ok)
        bad_ts == \/ Truthy(from_ts) /\ ~IntParses(from_ts.v)
                  \/ Truthy(to_ts) /\ ~IntParses(to_ts.v)
        fts == IF Truthy(from_ts) THEN PyInt(IntOf(from_ts.v)) ELSE None
        tts == IF Truthy(to_ts) THEN PyInt(IntOf(to_ts.v)) ELSE None
    IN  /\ \/ /\ ~IntParses(limit_s.v)
              /\ Done(e, "list_images", <<>>, Raise("ValueError"), <<>>, <<>>)
           \/ /\ IntParses(limit_s.v)
              /\ \E fetch_ok \in D :
                   \* the table rejects a Limit below 1
                   /\ ~(fetch_ok /\ limit >= 1)
                   /\ Done(e, "list_images", <<>>, Raise("ClientError"),
                           <<FetchCall(FALSE)>>, <<>>)
           \/ /\ IntParses(limit_s.v)
              /\ limit >= 1
              /\ TRUE \in D
              /\ \E fetched \in SUBSET cand :
                   LET items0 == [k \in 1..Len(IdSeq(fetched)) |->
                                     FromDb(table[IdSeq(fetched)[k]])]
                       items1 == IF Truthy(tag)
                                 THEN SelectSeq(items0, LAMBDA i :
                                        PyIn(tag, Or(DictGet(i, "tags", None), List(<<>>))))
                                 ELSE items0
                       items2 == IF Truthy(from_ts) \/ Truthy(to_ts)
                                 THEN SelectSeq(items1, LAMBDA i : in_range(i, fts, tts))
                                 ELSE items1
                   IN  /\ Cardinality(fetched) = Min(limit, Cardinality(cand))
                       /\ IF (Truthy(from_ts) \/ Truthy(to_ts)) /\ bad_ts
                          THEN Done(e, "list_images", <<>>,
                                    response(400, Dict([k \in {"message"} |->
                                        Msg("from_ts and to_ts must be integers")])),
                                    <<FetchCall(TRUE)>>, <<>>)
                          ELSE \E bad \in SUBSET {items2[k].v["image_id"].v : k \in 1..Len(items2)} :
                                 LET items3 == [k \in 1..Len(items2) |->
                                                   WithDownloadUrl(items2[k], bad)]
                                     signs == [k \in 1..Len(items2) |->
                                                 Call("s3", "generate_presigned_url",
                                                      items2[k].v["s3_key"].v,
                                                      items2[k].v["image_id"].v \notin bad)]
                                 IN  Done(e, "list_images", <<>>,
                                          response(200, Dict([k \in {"items"} |-> List(items3)])),
                                          <<FetchCall(TRUE)>> \o signs, items3)
        /\ UNCHANGED <<store, conc>>

(* -------------------------------------------------------- get, delete --- *)

\* A key attribute may not be the empty string: the table rejects the call.
KeyOk(image_id) == image_id # <<>>

\* get_image(event, image_id)
get_image(e, image_id, D) ==
    LET item == get_item(table, image_id)
    IN  /\ \E get_ok \in D :
             LET get == Call("table", "get_item", image_id, get_ok /\ KeyOk(image_id))
             IN  IF ~(get_ok /\ KeyOk(image_id))
                 THEN Done(e, "get_image", image_id, Raise("ClientError"), <<get>>, <<>>)
                 ELSE IF ~Truthy(item)
                 THEN Done(e, "get_image", image_id,
                           response(404, Dict([k \in {"message"} |-> Msg("Image not found")])),
                           <<get>>, <<>>)
                 ELSE \E sign_ok \in BOOLEAN :
                        LET sign == Call("s3", "generate_presigned_url",
                                         item.v["s3_key"].v, sign_ok)
                        IN  IF ~sign_ok
                            THEN Done(e, "get_image", image_id,
                                      response(500, Dict([k \in {"message", "error"} |->
                                          IF k = "message" THEN Msg("Could not generate URL")
                                          ELSE Msg("str(e)")])),
                                      <<get, sign>>, <<>>)
                            ELSE Done(e, "get_image", image_id,
                                      response(200, DictSet(item, "download_url",
                                          PresignedUrl("get_object", item.v["s3_key"].v,
                                                       None, 300))),
                                      <<get, sign>>, <<>>)
        /\ UNCHANGED <<store, conc>>

\* The response of a completed delete_image.
Deleted(image_id) ==
    response(200, Dict([k \in {"message", "image_id"} |->
        IF k = "message" THEN Msg("Deleted") ELSE Str(image_id)]))

\* A delete_item that insisted on the record being there (a conditional
\* delete) would fault on a record that is already gone.
DeleteItemRespStrict(t, image_id) ==
    IF image_id \in DOMAIN t THEN Deleted(image_id) ELSE Raise("ClientError")

\* What delete_image returns once table.delete_item was called on table t:
\* the call succeeds whether or not t still holds the record.
DeleteItemResp(t, image_id) == Deleted(image_id)

\* A delete_image that let the object's fate decide the record's: the record
\* stays when the object could not be deleted.
TableAfterDeleteStrict(t, image_id, obj_ok) ==
    IF obj_ok THEN delete_item(t, image_id) ELSE t

\* The table after the try/except around s3.delete_object and the
\* table.delete_item that follows it: the record goes whether or not the
\* object did.
TableAfterDelete(t, image_id, obj_ok) == delete_item(t, image_id)

\* The bucket after the try/except around s3.delete_object: a failure is
\* swallowed and leaves the object.
TryDeleteObject(b, key, ok) == IF ok THEN delete_object(b, key) ELSE b

\* delete_image(event, image_id)
delete_image(e, image_id, D) ==
    LET item == get_item(table, image_id)
    IN  /\ \E get_ok \in D :
             LET get == Call("table", "get_item", image_id, get_ok /\ KeyOk(image_id))
             IN  IF ~(get_ok /\ KeyOk(image_id))
                 THEN /\ Done(e, "delete_image", image_id, Raise("ClientError"),
                              <<get>>, <<>>)
                      /\ UNCHANGED <<table, bucket, removed>>
                 ELSE IF ~Truthy(item)
                 THEN /\ Done(e, "delete_image", image_id,
                              response(404, Dict([k \in {"message"} |->
                                  Msg("Image not found")])),
                              <<get>>, <<>>)
                      /\ UNCHANGED <<table, bucket, removed>>
                 ELSE \E obj_ok \in BOOLEAN, del_ok \in D :
                        LET delobj == Call("s3", "delete_object", item.v["s3_key"].v, obj_ok)
                            delrec == Call("table", "delete_item", image_id, del_ok)
                        IN  /\ bucket' = TryDeleteObject(bucket, item.v["s3_key"].v, obj_ok)
                            /\ IF ~del_ok
                               THEN /\ Done(e, "delete_image", image_id,
                                            Raise("ClientError"),
                                            <<get, delobj, delrec>>, <<>>)
                                    /\ UNCHANGED <<table, removed>>
                               ELSE /\ table' = TableAfterDelete(table, image_id, obj_ok)
                                    /\ removed' = removed \cup {image_id}
                                    /\ Done(e, "delete_image", image_id,
                                            DeleteItemResp(table, image_id),
                                            <<get, delobj, delrec>>, <<>>)
        /\ UNCHANGED <<uuids, now, issued, conc>>

(* ----------------------------------------------------------- handler --- *)

\* lambda_handler(event, context)
lambda_handler(e, D) ==
    \/ Route(e) = "create_image" /\ create_image(e, D)
    \/ Route(e) = "list_images" /\ list_images(e, D)
    \/ Route(e) = "get_image" /\ get_image(e, ImageIdOf(e.path), D)
    \/ Route(e) = "delete_image" /\ delete_image(e, ImageIdOf(e.path), D)
    \/ Route(e) = "none" /\ NotFound(e)

\* The client uploads through a presigned PUT URL it was given.
Upload ==
    /\ \E i \in issued :
          /\ i.s3_key \notin bucket
          /\ bucket' = bucket \cup {i.s3_key}
    /\ Done(NoEvent, "none", <<>>, NoResp, <<>>, <<>>)
    /\ UNCHANGED <<table, uuids, now, issued, removed, conc>>

(* ------------------------------------------------------------ inputs --- *)

\* A dict whose keys are those of ks and whose values f gives.
Obj(ks, f) == Dict([k \in ks |-> f[k]])

\* The JSON bodies of the POST requests: valid ones that differ in owner
\* and tags (a list, or a bare string), and the invalid ones.
Bodies ==
    {None, Str(<<>>), BadJsonText, JsonText(None), JsonText(List(<<PyInt(1)>>)),
     JsonText(Dict(EmptyMap)),
     JsonText(Obj({"user_id"}, [user_id |-> Str(uA)])),
     JsonText(Obj({"filename"}, [filename |-> Str(fA)])),
     JsonText(Obj({"user_id", "filename"}, [user_id |-> Str(<<>>), filename |-> Str(fA)])),
     JsonText(Obj({"user_id", "filename"}, [user_id |-> Str(uA), filename |-> Str(<<>>)])),
     JsonText(Obj({"user_id", "filename"}, [user_id |-> Str(uA), filename |-> Str(fA)])),
     JsonText(Obj({"user_id", "filename", "tags", "content_type", "description"},
                  [user_id |-> Str(uB), filename |-> Str(fA),
                   tags |-> List(<<Str(sun), Str(sea)>>),
                   content_type |-> Msg("image/jpeg"),
                   description |-> Msg("desc")]))}

\* "/images/" followed by id.
ImagePath(id) == S_images_slash \o id

\* The requests of the general specification.
Events ==
    {Event("POST", S_images, None, None, b) : b \in Bodies}
    \cup {Event(m, ImagePath(id), Dict([k \in {"image_id"} |-> Str(id)]), None, None) :
            m \in {"GET", "DELETE"}, id \in AllIds \cup {<<"z">>}}
    \cup {Event("GET", S_images, None, qs, None) :
            qs \in {None,
                    Obj({"user_id"}, [user_id |-> Str(uA)]),
                    Obj({"tag", "limit"}, [tag |-> Str(sun), limit |-> Str(<<"1">>)]),
                    Obj({"limit"}, [limit |-> Str(<<"x">>)])}}
    \cup {Event("PUT", S_images, None, None, None)}

\* The outcomes of a table call (TRUE: success) when the table is available,
\* and when any call on it may fail.
NoDbFault == {TRUE}

AnyDbFault == {TRUE, FALSE}

Step(E, D) ==
    \/ \E e \in E : lambda_handler(e, D)
    \/ Upload

Next == Step(Events, NoDbFault)

Spec == Init /\ [][Next]_vars

NextFaults == Step(Events, AnyDbFault)

SpecFaults == Init /\ [][NextFaults]_vars

(* ----------------------------------------------------- routing inputs --- *)

ValidBody ==
    JsonText(Obj({"user_id", "filename"}, [user_id |-> Str(uA), filename |-> Str(fA)]))

\* Paths on either side of each routing rule: the collection path with and
\* without a prefix or a trailing slash, item paths whose last piece is an
\* identifier, holds escapes (valid, invalid, one that decodes to an
\* identifier) or is empty, paths in which "/images/" occurs twice (apart and
\* overlapping) or that both contain "/images/" and end with "/images", and
\* paths that match nothing.
RoutePaths ==
    {S_images, <<"/", "v", "1">> \o S_images, S_images_slash,
     ImagePath(<<"a", "+", "b">>), ImagePath(<<"a", "%", "2", "0", "b">>),
     ImagePath(<<"%", "z", "z">>), ImagePath(<<"i", "%", "3", "1">>),
     S_images \o S_images, S_images \o ImagePath(Uuid(1)),
     ImagePath(Uuid(1)) \o S_images, ImagePath(<<"x">>) \o ImagePath(Uuid(1)),
     S_images \o <<"x">>, <<"/", "o">>, <<>>}
    \cup {ImagePath(id) : id \in AllIds}

RouteEvents ==
    {Event(m, path, None, None, None) : m \in {"GET", "DELETE"}, path \in RoutePaths}
    \cup {Event("POST", path, None, None, None) :
            path \in {S_images_slash, ImagePath(Uuid(1)), S_images \o S_images,
                      S_images \o <<"x">>, <<>>}}
    \cup {Event("PUT", path, None, None, None) : path \in {S_images, ImagePath(Uuid(1))}}
    \cup {Event("GET", path, pp, None, None) :
            path \in {S_images, S_images \o S_images},
            pp \in {Dict(EmptyMap),
                    Dict([k \in {"image_id"} |-> Str(Uuid(1))]),
                    Dict([k \in {"image_id"} |-> Str(<<>>)])}}
    \cup {Event("POST", path, None, None, ValidBody) :
            path \in {S_images, <<"/", "v", "1">> \o S_images}}

NextRoute == Step(RouteEvents, NoDbFault)

SpecRoute == Init /\ [][NextRoute]_vars

(* ------------------------------------------------------ listing inputs --- *)

\* Records of two owners whose tags are a list, a bare string, or absent.
ListBodies ==
    {JsonText(Obj({"user_id", "filename", "tags"},
                  [user_id |-> Str(uA), filename |-> Str(fA),
                   tags |-> List(<<Str(sea), Str(sun)>>)])),
     JsonText(Obj({"user_id", "filename", "tags"},
                  [user_id |-> Str(uB), filename |-> Str(fA), tags |-> Str(sunny)])),
     JsonText(Obj({"user_id", "filename"}, [user_id |-> Str(uB), filename |-> Str(fA)]))}

\* Query strings: owner, tag and limit filters; timestamp bounds at and
\* around the clock's values, zero, empty and not a number.
Queries ==
    {None,
     Obj({"user_id"}, [user_id |-> Str(uB)]),
     Obj({"tag"}, [tag |-> Str(sun)]),
     Obj({"user_id", "tag"}, [user_id |-> Str(uB), tag |-> Str(sun)]),
     Obj({"user_id", "limit"}, [user_id |-> Str(uB), limit |-> Str(<<"1">>)])}
    \cup {Obj({"limit"}, [limit |-> Str(l)]) : l \in {<<"1">>, <<"0">>, <<"x">>}}
    \cup {Obj({"from_ts"}, [from_ts |-> Str(f)]) :
            f \in {<<"0">>, <<"2">>, <<"x">>, <<>>}}
    \cup {Obj({"to_ts"}, [to_ts |-> Str(t)]) : t \in {<<"0">>, <<"1">>}}
    \cup {Obj({"from_ts", "to_ts"}, [from_ts |-> Str(<<"1">>), to_ts |-> Str(t)]) :
            t \in {<<"1">>, <<"x">>}}

ListEvents ==
    {Event("POST", S_images, None, None, b) : b \in ListBodies}
    \cup {Event("GET", S_images, None, qs, None) : qs \in Queries}
    \cup {Event(m, ImagePath(Uuid(1)), None, None, None) : m \in {"GET", "DELETE", "PUT"}}

NextList == \E e \in ListEvents : lambda_handler(e, NoDbFault)

SpecList == Init /\ [][NextList]_vars

(* --------------------------------------------- concurrent deletions --- *)

\* Two invocations of delete_image for one image_id run at once, each in
\* its own process; a step of one is a call on a collaborator.

\* Two DELETE /images/{id} requests arrive for an image that exists.
StartDeletes ==
    /\ \A p \in {1, 2} : pc[p] = "idle"
    /\ \E id \in DOMAIN table :
          dl' = [p \in {1, 2} |-> [image_id |-> id, item |-> None, resp |-> NoResp]]
    /\ pc' = [p \in {1, 2} |-> "get_item"]
    /\ Done(NoEvent, "none", <<>>, NoResp, <<>>, <<>>)
    /\ UNCHANGED store

\* resp = table.get_item(...); if not item: return response(404, ...)
DelGetItem(p) ==
    LET item == get_item(table, dl[p].image_id)
    IN  /\ pc[p] = "get_item"
        /\ IF ~Truthy(item)
           THEN /\ pc' = [pc EXCEPT ![p] = "done"]
                /\ dl' = [dl EXCEPT ![p].resp =
                            response(404, Dict([k \in {"message"} |->
                                Msg("Image not found")]))]
           ELSE /\ pc' = [pc EXCEPT ![p] = "delete_object"]
                /\ dl' = [dl EXCEPT ![p].item = item]
        /\ UNCHANGED <<store, event, op, arg, resp, calls, items>>

\* try: s3.delete_object(...) except Exception: pass
DelDeleteObject(p) ==
    /\ pc[p] = "delete_object"
    /\ \E obj_ok \in BOOLEAN :
          bucket' = TryDeleteObject(bucket, dl[p].item.v["s3_key"].v, obj_ok)
    /\ pc' = [pc EXCEPT ![p] = "delete_item"]
    /\ UNCHANGED <<table, uuids, now, issued, removed, dl, event, op, arg, resp,
                   calls, items>>

\* table.delete_item(...); return response(200, ...)
DelDeleteItem(p) ==
    /\ pc[p] = "delete_item"
    /\ table' = delete_item(table, dl[p].image_id)
    /\ removed' = removed \cup {dl[p].image_id}
    /\ pc' = [pc EXCEPT ![p] = "done"]
    /\ dl' = [dl EXCEPT ![p].resp = DeleteItemResp(table, dl[p].image_id)]
    /\ UNCHANGED <<bucket, uuids, now, issued, event, op, arg, resp, calls, items>>

\* Both responses were delivered.
EndDeletes ==
    /\ \A p \in {1, 2} : pc[p] = "done"
    /\ pc' = [p \in {1, 2} |-> "idle"]
    /\ dl' = [p \in {1, 2} |-> IdleLocals]
    /\ UNCHANGED <<store, event, op, arg, resp, calls, items>>

DelEvents ==
    {Event("POST", S_images, None, None, b) :
        b \in {ValidBody,
               JsonText(Obj({"user_id", "filename"},
                            [user_id |-> Str(uB), filename |-> Str(fA)]))}}

NextDel ==
    \/ \E e \in DelEvents : Route(e) = "create_image" /\ create_image(e, NoDbFault)
    \/ Upload
    \/ StartDeletes
    \/ \E p \in {1, 2} : DelGetItem(p)
    \/ \E p \in {1, 2} : DelDeleteObject(p)
    \/ \E p \in {1, 2} : DelDeleteItem(p)
    \/ EndDeletes

\* A step of either deletion.  The Lambda runtime runs every invocation it
\* started to its end, so a deletion that can step eventually does.
DeleteStep(p) == DelGetItem(p) \/ DelDeleteObject(p) \/ DelDeleteItem(p)

SpecDel == Init /\ [][NextDel]_vars /\ \A p \in {1, 2} : WF_vars(DeleteStep(p))

(* ------------------------------------------------------ observations --- *)

\* What the client of the last request saw.
Returned(code) == resp.kind = "return" /\ resp.statusCode = code

\* Field k of the JSON body of the response.
Field(k) == resp.body.doc.v[k]

HasField(k) == resp.kind = "return" /\ k \in DOMAIN resp.body.doc.v

\* Every call the last request made on a collaborator succeeded.
AllCallsOk == \A k \in 1..Len(calls) : calls[k].ok

ObjectStoreCalls == {k \in 1..Len(calls) : calls[k].svc = "s3"}

RecordStoreWrites ==
    {k \in 1..Len(calls) : calls[k].svc = "table" /\ calls[k].op \in {"put_item", "delete_item"}}

\* The identifiers create_image has generated so far.
Created == {Uuid(n) : n \in 1..uuids}

\* Query parameter k of the last request, empty when it is absent.
Param(k) ==
    LET qs == event.queryStringParameters
    IN  IF qs.ty = "dict" /\ k \in DOMAIN qs.v THEN qs.v[k].v ELSE <<>>

\* The body of request e is a JSON object with a non-empty user_id and a
\* non-empty filename.
NonEmptyFields(e) ==
    /\ IsJsonText(e.body)
    /\ e.body.doc.ty = "dict"
    /\ \A k \in {"user_id", "filename"} :
          /\ k \in DOMAIN e.body.doc.v
          /\ e.body.doc.v[k].ty = "str"
          /\ e.body.doc.v[k].v # <<>>

(* ---------------------------------------------------------------- C1 --- *)

\* C1: with every collaborator call succeeding, Get(id) returns 200 when the
\* table holds a record with that id and 404 when it does not; once
\* Delete(id) has returned 200, a later Get(id) or Delete(id) returns 404;
\* Get on an id that no Create generated returns 404.
C1_GetTracksStore ==
    [][/\ (op' = "get_image" /\ AllCallsOk') =>
             IF arg' \in DOMAIN table' THEN Returned(200)' ELSE Returned(404)'
       /\ (op' \in {"get_image", "delete_image"} /\ arg' \in removed /\ AllCallsOk') =>
             Returned(404)'
       /\ (op' = "get_image" /\ arg' \notin Created /\ AllCallsOk') =>
             Returned(404)'
      ]_vars

(* ---------------------------------------------------------------- C2 --- *)

\* C2: with every collaborator call succeeding, a Create whose body has a
\* non-empty user_id and filename returns 201 with a fresh non-empty
\* image_id, an upload_url and s3_key = user_id/image_id/filename, and adds
\* exactly that one record; the Get of that image_id in the very next
\* request returns 200 with the same image_id, user_id, filename and s3_key
\* and a download_url.
C2_CreateGetRoundTrip ==
    [][/\ (op' = "create_image" /\ NonEmptyFields(event') /\ AllCallsOk') =>
             /\ Returned(201)'
             /\ HasField("upload_url")'
             /\ Field("image_id")'.v # <<>>
             /\ Field("image_id")'.v \notin Created
             /\ Field("s3_key")'.v =
                    event'.body.doc.v["user_id"].v \o <<"/">> \o Field("image_id")'.v
                    \o <<"/">> \o event'.body.doc.v["filename"].v
             /\ DOMAIN table' = DOMAIN table \cup {Field("image_id")'.v}
             /\ Field("image_id")'.v \notin DOMAIN table
             /\ \A id \in DOMAIN table : table'[id] = table[id]
       /\ (/\ op = "create_image" /\ Returned(201)
           /\ op' = "get_image" /\ arg' = Field("image_id").v /\ AllCallsOk') =>
             /\ Returned(200)'
             /\ Field("image_id")' = Field("image_id")
             /\ Field("s3_key")' = Field("s3_key")
             /\ Field("user_id")' = event.body.doc.v["user_id"]
             /\ Field("filename")' = event.body.doc.v["filename"]
             /\ HasField("download_url")'
      ]_vars

(* ---------------------------------------------------------------- C3 --- *)

\* C3: a Create whose body is not valid JSON, or lacks a non-empty user_id
\* or a non-empty filename, returns 400, changes no record and makes no
\* object-store call.
C3_BadCreateIs400 ==
    [][(op' = "create_image" /\ ~NonEmptyFields(event')) =>
          /\ Returned(400)'
          /\ table' = table
          /\ ObjectStoreCalls' = {}
      ]_vars

(* ---------------------------------------------------------------- C4 --- *)

\* C4: a List with user_id=U and/or tag=T (and a limit of at least 1, 50
\* when absent) returns 200 with at most limit items, each of owner U and
\* holding T among the elements of its tag sequence; when the table holds
\* no more than limit records, the items are exactly the stored records of
\* owner U that hold T.
C4_ListFilters ==
    LET U == Param("user_id")
        T == Param("tag")
        limit == IF Param("limit") = <<>> THEN 50 ELSE IntOf(Param("limit"))
        Matches(rec) ==
            /\ U # <<>> => rec.v["user_id"].v = U
            /\ T # <<>> => /\ rec.v["tags"].ty = "list"
                           /\ \E k \in 1..Len(rec.v["tags"].v) : rec.v["tags"].v[k].v = T
    IN  (/\ op = "list_images"
         /\ U # <<>> \/ T # <<>>
         /\ Param("limit") # <<>> => IntParses(Param("limit")) /\ limit >= 1)
        => /\ Returned(200)
           /\ Len(Field("items").v) <= limit
           /\ \A k \in 1..Len(Field("items").v) : Matches(Field("items").v[k])
           /\ Cardinality(DOMAIN table) <= limit =>
                 {Field("items").v[k].v["image_id"].v : k \in 1..Len(Field("items").v)}
                 = {id \in DOMAIN table : Matches(table[id])}

(* ---------------------------------------------------------------- C5 --- *)

\* C5: a List with from_ts and/or to_ts (an empty value counts as not
\* given) answers 400 when a given bound is not an integer; otherwise the
\* items it builds for its response hold no record created before from_ts or
\* after to_ts, zero included, and, every record being fetched (no other
\* filter, and a limit above the size of the table), hold every record
\* created inside the inclusive range.
C5_TimestampRange ==
    LET F == Param("from_ts")
        T == Param("to_ts")
        InRange(ca) == (F # <<>> => ca >= IntOf(F)) /\ (T # <<>> => ca <= IntOf(T))
    IN  (op = "list_images" /\ (F # <<>> \/ T # <<>>)) =>
           IF (F # <<>> /\ ~IntParses(F)) \/ (T # <<>> /\ ~IntParses(T))
           THEN Returned(400)
           ELSE /\ \A k \in 1..Len(items) : InRange(items[k].v["created_at"].v)
                /\ (Param("user_id") = <<>> /\ Param("tag") = <<>> /\ Param("limit") = <<>>)
                     => \A id \in DOMAIN table :
                           InRange(table[id].v["created_at"].v)
                           => \E k \in 1..Len(items) : items[k].v["image_id"].v = id

(* ---------------------------------------------------------------- C6 --- *)

\* C6: whatever the request and whatever the outcome of each call on the
\* table and on the object store, the handler returns a response (no
\* exception leaves it); a response of 400 or above carries a message, and
\* when a call other than the object deletion of Delete failed the status
\* is 500.
C6_AlwaysAResponse ==
    resp.kind # "none" =>
        /\ resp.kind = "return"
        /\ resp.statusCode >= 400 => HasField("message")
        /\ (\E k \in 1..Len(calls) : ~calls[k].ok /\ calls[k].op # "delete_object")
              => resp.statusCode = 500

(* ---------------------------------------------------------------- C7 --- *)

\* The outcome the routing rules name for request e, rule by rule.
RuleOutcome(e) ==
    LET no_id_param ==
            \/ e.pathParameters.ty # "dict"
            \/ "image_id" \notin DOMAIN e.pathParameters.v
            \/ e.pathParameters.v["image_id"].v = <<>>
    IN  CASE e.httpMethod = "POST" /\ EndsWith(e.path, S_images) -> "create_image"
          [] e.httpMethod = "GET" /\ EndsWith(e.path, S_images) /\ no_id_param -> "list_images"
          [] /\ e.httpMethod = "GET"
             /\ ~(EndsWith(e.path, S_images) /\ no_id_param)
             /\ Contains(e.path, S_images_slash) -> "get_image"
          [] e.httpMethod = "DELETE" /\ Contains(e.path, S_images_slash) -> "delete_image"
          [] OTHER -> "none"

\* The text of s after the last place at which sub occurs in it.
AfterLast(s, sub) ==
    LET at == {i \in 1..Len(s) : StartsAt(s, sub, i)}
        last == CHOOSE i \in at : \A j \in at : j <= i
    IN  IF at = {} THEN s ELSE SubSeq(s, last + Len(sub), Len(s))

\* The outcome of the last request is the one the rules name, and a request
\* no rule names got 404 "Not Found" with no call on a collaborator.
RoutedByRule ==
    /\ op = RuleOutcome(event)
    /\ op = "none" =>
          /\ Returned(404)
          /\ Field("message") = Msg("Not Found")
          /\ calls = <<>>
    /\ op \in {"get_image", "delete_image"} =>
          /\ calls # <<>>
          /\ calls[1] = Call("table", "get_item", arg, arg # <<>>)

\* C7 (as stated): every request gets the outcome the rules name, and Get
\* and Delete receive as image_id the text after the last "/images/" of the
\* path.
C7_RoutingRawId ==
    resp.kind # "none" =>
        /\ RoutedByRule
        /\ op \in {"get_image", "delete_image"} => arg = AfterLast(event.path, S_images_slash)

\* C7 (amended): every request gets the outcome the rules name, and Get and
\* Delete receive as image_id the last piece of the path split at "/images/"
\* (pieces taken left to right, without overlap), with its percent escapes
\* and plus signs decoded.
C7_Routing ==
    resp.kind # "none" =>
        /\ RoutedByRule
        /\ op \in {"get_image", "delete_image"} =>
              arg = unquote_plus(SplitLast(event.path, S_images_slash))

\* A Get whose path holds an escape reached the record the decoded
\* identifier names.
C7_DecodedIdFound ==
    /\ op = "get_image"
    /\ event.path = ImagePath(<<"i", "%", "3", "1">>)
    /\ arg = Uuid(1)
    /\ arg \in DOMAIN table
    /\ Len(calls) = 2

(* ---------------------------------------------------------------- C8 --- *)

C9_ConcurrentDeletes ==
    /\ [](/\ \A p \in {1, 2} :
               pc[p] = "done" =>
                  /\ dl[p].resp.kind = "return"
                  /\ dl[p].resp.statusCode \in {200, 404}
          /\ (\A p \in {1, 2} : pc[p] = "done") =>
                  /\ \E p \in {1, 2} : dl[p].resp.statusCode = 200
                  /\ dl[1].image_id \notin DOMAIN table)
    /\ [][pc' # pc =>
             /\ DOMAIN table' \subseteq DOMAIN table
             /\ \A id \in DOMAIN table \ {dl'[1].image_id} :
                   id \in DOMAIN table' /\ table'[id] = table[id]]_vars
    /\ ((\A p \in {1, 2} : pc[p] = "get_item") ~> (\A p \in {1, 2} : pc[p] = "done"))

\* Both Deletes read the record before either removed it, both returned
\* 200, and another record is still in the table.
C9_BothReadTheRecord ==
    /\ \A p \in {1, 2} : pc[p] = "done" /\ dl[p].resp.statusCode = 200
    /\ dl[1].image_id \notin DOMAIN table
    /\ DOMAIN table # {}

(* --------------------------------------------------------------- C10 --- *)

\* C10: every record of the table has an image_id that a 201 response of
\* Create gave to a client.
C10_RecordsWereIssued ==
    \A id \in DOMAIN table : \E i \in issued : i.image_id = id

====
